---- MODULE Spec2Model ----
(***************************************************************************)
(* Model of the Speedometer server's measurement controller                *)
(* (gspeedometer/controllers/measurement.py) and of its conversion helpers *)
(* (gspeedometer/helpers/util.py).                                         *)
(*                                                                         *)
(* Python values are tagged tuples <<tag, payload>>; a dict is a function  *)
(* from key strings to values; text that the code inspects character by    *)
(* character is a sequence of one-character strings.                       *)
(***************************************************************************)
EXTENDS Integers, Sequences, FiniteSets, TLC

\* ------------------------------------------------------------------ bounds
\* Longest measurement batch a request body carries.
MaxBatch == 3
\* Most Measurement entities the datastore is let grow to.
MaxStored == 4
\* Most digits in the fraction of a timestamp text.
MaxFracDigits == 7
\* Deepest nesting of models inside the model converted to a dict.
MaxDepth == 1

\* ------------------------------------------------------------ Python values
None == <<"None", "None">>
Str(s) == <<"str", s>>
Num(n) == <<"int", n>>
Dict(d) == <<"dict", d>>
\* A db.Model instance held as a value: the key of a DeviceInfo entity, the
\* datastore id of a DeviceProperties entity.
DeviceInfoRef(key_name) == <<"DeviceInfo", key_name>>
DevicePropertiesRef(id) == <<"DeviceProperties", id>>

EmptyDict == [k \in {} |-> None]

\* del d[key]
DictDel(d, key) == [k \in (DOMAIN d) \ {key} |-> d[k]]

\* d[key] = value
DictSet(d, key, value) == (key :> value) @@ d

SeqsUpTo(S, n) == UNION {[1..k -> S] : k \in 0..n}

\* ---------------------------------------------------------------- str.lower
LowerChar(c) ==
  CASE c = "P" -> "p" [] c = "O" -> "o" [] c = "S" -> "s" [] c = "T" -> "t"
    [] c = "G" -> "g" [] c = "E" -> "e" [] c = "U" -> "u"
    [] OTHER -> c

Lower(s) == [n \in 1..Len(s) |-> LowerChar(s[n])]

\* ------------------------------------------------------- model objects
\* A db.Model instance in memory: its Python attributes, the names for which
\* the class defines a JSON_DECODE_<name> method, the calls those methods
\* received, and the datastore id (0 until put() assigns one).
NewModel(kind, hooks) ==
  [kind |-> kind, attrs |-> EmptyDict, hooks |-> hooks, calls |-> <<>>, id |-> 0]

NoModel == NewModel("None", {})

\* method(v) for method = model.JSON_DECODE_<k>: what the method does with
\* its argument is the class's own business; the call is recorded.
CallHook(model, k, v) == [model EXCEPT !.calls = Append(@, <<k, v>>)]

\* util.ConvertFromDict, one pass of its loop body for key k.
ConvertFromDictMutantHookIgnored(model, k, v, fields_to_exclude) ==
  IF k \in fields_to_exclude THEN model
  ELSE [model EXCEPT !.attrs = DictSet(@, k, v)]

ConvertFromDictStep(model, k, v, fields_to_exclude) ==
  IF k \in fields_to_exclude THEN model
  ELSE IF k \in model.hooks THEN CallHook(model, k, v)
  ELSE [model EXCEPT !.attrs = DictSet(@, k, v)]

\* util.ConvertFromDict: the loop over input_dict.items(), in the dict's
\* iteration order (here: the order CHOOSE fixes).
RECURSIVE ConvertFromDictLoop(_, _, _, _)
ConvertFromDictLoop(model, input_dict, keys, fields_to_exclude) ==
  IF keys = {} THEN model
  ELSE LET k == CHOOSE x \in keys : TRUE
       IN ConvertFromDictLoop(
            ConvertFromDictStep(model, k, input_dict[k], fields_to_exclude),
            input_dict, keys \ {k}, fields_to_exclude)

ConvertFromDict(model, input_dict, fields_to_exclude) ==
  ConvertFromDictLoop(model, input_dict, DOMAIN input_dict, fields_to_exclude)

\* ------------------------------------------------------------- timestamps
\* A datetime: second of the minute and microsecond. The date, hour and
\* minute fields are the same in every value and are written "D" in text,
\* standing for "2021-01-01T00:00:".
DateTime(sec, usec) == [sec |-> sec, usec |-> usec]

Digits == {"0", "1", "2", "3", "4", "5", "6", "7", "8", "9"}

DigitVal(c) ==
  CASE c = "0" -> 0 [] c = "1" -> 1 [] c = "2" -> 2 [] c = "3" -> 3
    [] c = "4" -> 4 [] c = "5" -> 5 [] c = "6" -> 6 [] c = "7" -> 7
    [] c = "8" -> 8 [] c = "9" -> 9

DigitChar(n) ==
  CASE n = 0 -> "0" [] n = 1 -> "1" [] n = 2 -> "2" [] n = 3 -> "3"
    [] n = 4 -> "4" [] n = 5 -> "5" [] n = 6 -> "6" [] n = 7 -> "7"
    [] n = 8 -> "8" [] n = 9 -> "9"

\* int(s) accepts s
IsIntLiteral(s) == Len(s) > 0 /\ \A n \in 1..Len(s) : s[n] \in Digits

\* int(s)
RECURSIVE IntOf(_)
IntOf(s) ==
  IF Len(s) = 0 THEN 0
  ELSE 10 * IntOf(SubSeq(s, 1, Len(s) - 1)) + DigitVal(s[Len(s)])

\* "%0<width>d" % n
RECURSIVE ZeroPadded(_, _)
ZeroPadded(n, width) ==
  IF width = 0 THEN <<>>
  ELSE Append(ZeroPadded(n \div 10, width - 1), DigitChar(n % 10))

\* datetime.isoformat(): the fraction is written only when it is not zero.
IsoFormat(dt) ==
  <<"D">> \o ZeroPadded(dt.sec, 2)
    \o (IF dt.usec = 0 THEN <<>> ELSE <<".">> \o ZeroPadded(dt.usec, 6))

\* util.TimeToString
TimeToString(dt) == IsoFormat(dt) \o <<"Z">>

\* str.split('.')
RECURSIVE SplitOnDot(_)
SplitOnDot(s) ==
  IF \A n \in 1..Len(s) : s[n] # "."
    THEN <<s>>
    ELSE LET at == CHOOSE n \in 1..Len(s) :
                     s[n] = "." /\ \A m \in 1..(n - 1) : s[m] # "."
         IN <<SubSeq(s, 1, at - 1)>> \o SplitOnDot(SubSeq(s, at + 1, Len(s)))

\* util.py 24-29: the two-name unpacking succeeds on exactly two parts;
\* otherwise the last character is dropped and 'Z' is taken as the rest.
SplitTimestringMutantKeepsLast(thestr) ==
  LET parts == SplitOnDot(thestr)
  IN IF Len(parts) = 2
       THEN [strtime |-> parts[1], extra |-> parts[2]]
       ELSE [strtime |-> thestr, extra |-> <<"Z">>]

SplitTimestring(thestr) ==
  LET parts == SplitOnDot(thestr)
  IN IF Len(parts) = 2
       THEN [strtime |-> parts[1], extra |-> parts[2]]
       ELSE [strtime |-> SubSeq(thestr, 1, Len(thestr) - 1), extra |-> <<"Z">>]

\* time.strptime(strtime, "%Y-%m-%dT%H:%M:%S") matches: %S takes two digits
\* up to 61, or else one digit, and nothing may follow it.
StrptimeMatches(strtime) ==
  /\ Len(strtime) \in {2, 3}
  /\ strtime[1] = "D"
  /\ \A n \in 2..Len(strtime) : strtime[n] \in Digits
  /\ Len(strtime) = 3 => IntOf(SubSeq(strtime, 2, 3)) <= 61

Returned(dt) == [ok |-> TRUE, dt |-> dt, exc |-> ""]
Raised(exc) == [ok |-> FALSE, dt |-> DateTime(0, 0), exc |-> exc]

InvalidFormat == "ValueError: Timestring does not end in Z"

\* util.py 34-36
RECURSIVE PadMicros(_)
PadMicros(usecstr) ==
  IF Len(usecstr) < 6 THEN PadMicros(Append(usecstr, "0")) ELSE usecstr

\* util.StringToTime
StringToTime(thestr) ==
  LET split == SplitTimestring(thestr)
      strtime == split.strtime
      extra == split.extra
  IN IF ~StrptimeMatches(strtime)
       THEN Raised("ValueError: time data does not match format")
     ELSE IF IntOf(SubSeq(strtime, 2, Len(strtime))) > 59
       THEN Raised("ValueError: second must be in 0..59")
     ELSE IF Len(extra) = 0
       THEN Raised("IndexError: string index out of range")
     ELSE IF extra[Len(extra)] # "Z"
       THEN Raised(InvalidFormat)
     ELSE LET usecstr == PadMicros(SubSeq(extra, 1, Len(extra) - 1))
          IN IF ~IsIntLiteral(usecstr)
               THEN Raised("ValueError: invalid literal for int()")
             ELSE IF IntOf(usecstr) > 999999
               THEN Raised("ValueError: microsecond must be in 0..999999")
             ELSE Returned(DateTime(IntOf(SubSeq(strtime, 2, Len(strtime))),
                                    IntOf(usecstr)))

\* ---------------------------------------------------------- ConvertToDict
\* include_fields / exclude_fields: None, or a collection of names.
NoList == [given |-> FALSE, names |-> {}]
ListOf(names) == [given |-> TRUE, names |-> names]

\* Values a model property can hold besides None, int, str, dict.
Date(dt) == <<"datetime", dt>>
GeoPt(lat, lon) == <<"GeoPt", [lat |-> lat, lon |-> lon]>>
Model(fields) == <<"Model", fields>>
UserProperty(email) == <<"UserProperty", email>>
Unencodable == <<"object", "object">>

\* util.py 47, 60
IsSimple(value) == value[1] \in {"int", "str", "dict"}

Encoded(value) == [ok |-> TRUE, value |-> value, exc |-> ""]
CannotEncode(key) ==
  [ok |-> FALSE, value |-> None, exc |-> <<"ValueError: cannot encode", key>>]

RECURSIVE ConvertToDict(_, _, _)
RECURSIVE ConvertToDictLoop(_, _, _, _, _)

\* util.py 57-58: the two `continue` tests
Skipped(key, include_fields, exclude_fields) ==
  \/ include_fields.given /\ key \notin include_fields.names
  \/ exclude_fields.given /\ key \in exclude_fields.names

\* util.py 67: the recursive call
ConvertNestedMutantUnfiltered(value, include_fields, exclude_fields) ==
  ConvertToDict(value[2], NoList, NoList)

ConvertNested(value, include_fields, exclude_fields) ==
  ConvertToDict(value[2], include_fields, exclude_fields)

\* util.py 59-71: what output[key] becomes, or the exception raised
EncodeValue(key, value, include_fields, exclude_fields) ==
  IF value = None \/ IsSimple(value) THEN Encoded(value)
  ELSE IF value[1] = "datetime" THEN Encoded(Str(TimeToString(value[2])))
  ELSE IF value[1] = "GeoPt"
    THEN Encoded(Dict([latitude |-> value[2].lat, longitude |-> value[2].lon]))
  ELSE IF value[1] = "Model"
    THEN LET nested == ConvertNested(value, include_fields, exclude_fields)
         IN IF nested.ok THEN Encoded(Dict(nested.output))
            ELSE [ok |-> FALSE, value |-> None, exc |-> nested.exc]
  ELSE IF value[1] = "UserProperty" THEN Encoded(Str(value[2]))
  ELSE CannotEncode(key)

\* util.py 56-72: the loop over model.properties(), in iteration order
ConvertToDictLoop(model, keys, include_fields, exclude_fields, output) ==
  IF keys = {} THEN [ok |-> TRUE, output |-> output, exc |-> ""]
  ELSE LET key == CHOOSE x \in keys : TRUE
       IN IF Skipped(key, include_fields, exclude_fields)
            THEN ConvertToDictLoop(model, keys \ {key}, include_fields,
                                   exclude_fields, output)
            ELSE LET e == EncodeValue(key, model[key], include_fields,
                                      exclude_fields)
                 IN IF e.ok
                      THEN ConvertToDictLoop(model, keys \ {key}, include_fields,
                                             exclude_fields,
                                             DictSet(output, key, e.value))
                      ELSE [ok |-> FALSE, output |-> EmptyDict, exc |-> e.exc]

\* util.ConvertToDict; a model is given by its properties and their values
ConvertToDict(model, include_fields, exclude_fields) ==
  ConvertToDictLoop(model, DOMAIN model, include_fields, exclude_fields,
                    EmptyDict)

\* ------------------------------------------------------------------ inputs
POST == <<"P", "O", "S", "T">>
post == <<"p", "o", "s", "t">>

Methods ==
  {POST, post, <<"P", "o", "s", "t">>, <<"G", "E", "T">>, <<"P", "U", "T">>}

\* Entries of a posted batch.
Entries ==
  { \* no properties
    ("device_id" :> Str("d1")) @@ ("type" :> Str("ping")),
    \* with properties
    ("device_id" :> Str("d1")) @@ ("type" :> Str("ping"))
      @@ ("properties" :> Dict("model" :> Str("m1"))),
    \* the entry itself carries a device_properties key
    ("device_id" :> Str("d2")) @@ ("device_properties" :> Str("bogus"))
      @@ ("properties" :> Dict("model" :> Str("m2"))),
    \* the properties carry a device_info key
    ("device_id" :> Str("d1")) @@ ("type" :> Str("ping"))
      @@ ("properties" :> Dict(("model" :> Str("m1")) @@ ("device_info" :> Str("d2")))),
    \* no device_id
    ("type" :> Str("ping")) @@ ("properties" :> Dict("model" :> Str("m1")))
  }

\* A request body: text json.loads rejects, or the JSON array it decodes to.
Bodies ==
  {[ok |-> FALSE, list |-> <<>>]}
    \cup {[ok |-> TRUE, list |-> l] : l \in SeqsUpTo(Entries, MaxBatch)}

\* ------------------------------------------------------------------- state
VARIABLES
  \* the datastore
  deviceInfos,        \* key names of the DeviceInfo entities
  propsStore,         \* DeviceProperties entities, by id
  measStore,          \* Measurement entities, by id
  putClock,           \* number of put() calls so far
  \* the request being served
  pc,                 \* position of the handler
  method,             \* self.request.method
  measurement_list,   \* json.loads(self.request.body)
  idx,                \* position of the for loop in measurement_list
  measurement_dict,
  device_info,
  device_properties,
  measurement,
  response,           \* what self.response.out has been written
  error,              \* the exception that ended the handler, if any
  \* the detail page
  detail,             \* outcome of the MeasurementDetail call being served
  \* the helpers of util.py, run on their own
  step,               \* how far the helper run has come
  arg,                \* the arguments the helper is called with
  res                 \* what it returned

postVars ==
  <<deviceInfos, propsStore, measStore, putClock, pc, method,
    measurement_list, idx, measurement_dict, device_info, device_properties,
    measurement, response, error>>

detailVars == <<detail>>

helperVars == <<step, arg, res>>

vars == <<postVars, detailVars, helperVars>>

storeVars == <<deviceInfos, propsStore, measStore, putClock>>
localVars == <<measurement_list, idx, measurement_dict, device_info,
               device_properties, measurement>>

NoResponse == [written |-> FALSE, content_type |-> "", body |-> ""]
NoError == ""
NoDetail == [called |-> FALSE, measid |-> <<>>, rendered |-> <<>>, exc |-> NoError]

PostInit ==
  /\ deviceInfos = {}
  /\ propsStore = <<>>
  /\ measStore = <<>>
  /\ putClock = 0
  /\ pc = "idle"
  /\ method = <<>>
  /\ measurement_list = <<>>
  /\ idx = 0
  /\ measurement_dict = EmptyDict
  /\ device_info = None
  /\ device_properties = NoModel
  /\ measurement = NoModel
  /\ response = NoResponse
  /\ error = NoError

Raise(exc) ==
  /\ pc' = "failed"
  /\ error' = exc

\* A request for the submission endpoint arrives.
ReceivePost ==
  /\ pc \in {"idle", "done", "failed"}
  /\ \E m \in Methods : method' = m
  /\ pc' = "check"
  /\ measurement_list' = <<>>
  /\ idx' = 0
  /\ measurement_dict' = EmptyDict
  /\ device_info' = None
  /\ device_properties' = NoModel
  /\ measurement' = NoModel
  /\ response' = NoResponse
  /\ error' = NoError
  /\ detail' = NoDetail
  /\ UNCHANGED storeVars
  /\ UNCHANGED helperVars

\* measurement.py 32-33
CheckMethodMutantNoCheck ==
  /\ pc = "check"
  /\ pc' = "parse"
  /\ UNCHANGED <<error, storeVars, method, localVars, response, detail>>
  /\ UNCHANGED helperVars

CheckMethod ==
  /\ pc = "check"
  /\ IF Lower(method) # post
       THEN Raise("BadRequest: Not a POST request.")
       ELSE pc' = "parse" /\ UNCHANGED error
  /\ UNCHANGED <<storeVars, method, localVars, response, detail>>
  /\ UNCHANGED helperVars

\* measurement.py 38
ParseBody ==
  /\ pc = "parse"
  /\ \E body \in Bodies :
       /\ Len(measStore) + Len(body.list) <= MaxStored
       /\ IF body.ok
           THEN /\ measurement_list' = body.list
                /\ idx' = 1
                /\ pc' = "loop"
                /\ UNCHANGED error
           ELSE /\ Raise("ValueError: No JSON object could be decoded")
                /\ UNCHANGED <<measurement_list, idx>>
  /\ UNCHANGED <<storeVars, method, measurement_dict, device_info,
                 device_properties, measurement, response, detail>>
  /\ UNCHANGED helperVars

\* measurement.py 40: the for statement takes the next entry, or ends.
NextEntry ==
  /\ pc = "loop"
  /\ IF idx <= Len(measurement_list)
       THEN /\ measurement_dict' = measurement_list[idx]
            /\ pc' = "device"
       ELSE /\ pc' = "respond"
            /\ UNCHANGED measurement_dict
  /\ UNCHANGED <<storeVars, method, measurement_list, idx,
                 device_info, device_properties, measurement, response, error, detail>>
  /\ UNCHANGED helperVars

\* measurement.py 41-43: DeviceInfo.get_or_insert(measurement_dict['device_id'])
GetDeviceInfo ==
  /\ pc = "device"
  /\ IF "device_id" \in DOMAIN measurement_dict
       THEN /\ deviceInfos' = deviceInfos \cup {measurement_dict["device_id"][2]}
            /\ device_info' = DeviceInfoRef(measurement_dict["device_id"][2])
            /\ pc' = "properties"
            /\ UNCHANGED error
       ELSE /\ Raise("KeyError: 'device_id'")
            /\ UNCHANGED <<deviceInfos, device_info>>
  /\ UNCHANGED <<propsStore, measStore, putClock, method,
                 measurement_list, idx, measurement_dict, device_properties,
                 measurement, response, detail>>
  /\ UNCHANGED helperVars

\* The decode hooks of model.DeviceProperties and model.Measurement: the
\* classes are outside the supplied source; none are assumed.
ModelHooks(kind) == {}

\* measurement.py 46-56
ResolveProperties ==
  /\ pc = "properties"
  /\ IF "properties" \in DOMAIN measurement_dict
       THEN LET fresh == [NewModel("DeviceProperties", ModelHooks("DeviceProperties"))
                            EXCEPT !.attrs = DictSet(@, "device_info", device_info)]
                properties_dict == measurement_dict["properties"][2]
            IN /\ device_properties' = ConvertFromDict(fresh, properties_dict, {})
               \* measurement_dict is the list's own element: del changes both
               /\ measurement_dict' = DictDel(measurement_dict, "properties")
               /\ measurement_list' =
                    [measurement_list EXCEPT ![idx] = DictDel(@, "properties")]
               /\ pc' = "putproperties"
               /\ UNCHANGED error
       ELSE \* `device` is bound nowhere in measurement.py
            /\ Raise("NameError: global name 'device' is not defined")
            /\ UNCHANGED <<device_properties, measurement_dict, measurement_list>>
  /\ UNCHANGED <<storeVars, method, idx, device_info, measurement,
                 response, detail>>
  /\ UNCHANGED helperVars

\* db.Model.put(): a new entity gets the next id, a stored one is rewritten.
Put(store, model, clock) ==
  LET entity == [attrs |-> model.attrs, putSeq |-> clock]
  IN IF model.id = 0 THEN Append(store, entity)
     ELSE [store EXCEPT ![model.id] = entity]

\* measurement.py 57
PutProperties ==
  /\ pc = "putproperties"
  /\ putClock' = putClock + 1
  /\ propsStore' = Put(propsStore, device_properties, putClock + 1)
  /\ device_properties' =
       IF device_properties.id = 0
         THEN [device_properties EXCEPT !.id = Len(propsStore) + 1]
         ELSE device_properties
  /\ pc' = "measurement"
  /\ UNCHANGED <<deviceInfos, measStore, method, measurement_list,
                 idx, measurement_dict, device_info, measurement, response,
                 error, detail>>
  /\ UNCHANGED helperVars

\* measurement.py 59-61
NewMeasurementMutantRefFirst(entry, properties) ==
  ConvertFromDict(
    [NewModel("Measurement", ModelHooks("Measurement")) EXCEPT
       !.attrs = DictSet(@, "device_properties", DevicePropertiesRef(properties.id))],
    entry, {})

NewMeasurement(entry, properties) ==
  LET converted == ConvertFromDict(
                     NewModel("Measurement", ModelHooks("Measurement")), entry, {})
  IN [converted EXCEPT
        !.attrs = DictSet(@, "device_properties", DevicePropertiesRef(properties.id))]

BuildMeasurement ==
  /\ pc = "measurement"
  /\ measurement' = NewMeasurement(measurement_dict, device_properties)
  /\ pc' = "putmeasurement"
  /\ UNCHANGED <<storeVars, method, measurement_list, idx,
                 measurement_dict, device_info, device_properties, response,
                 error, detail>>
  /\ UNCHANGED helperVars

\* measurement.py 62, and the loop moves on
PutMeasurementMutantDeferred ==
  /\ pc = "putmeasurement"
  /\ idx' = idx + 1
  /\ pc' = "loop"
  /\ UNCHANGED <<storeVars, method, measurement_list,
                 measurement_dict, device_info, device_properties, measurement,
                 response, error, detail>>
  /\ UNCHANGED helperVars

PutMeasurement ==
  /\ pc = "putmeasurement"
  /\ putClock' = putClock + 1
  /\ measStore' = Put(measStore, measurement, putClock + 1)
  /\ measurement' = [measurement EXCEPT !.id = Len(measStore) + 1]
  /\ idx' = idx + 1
  /\ pc' = "loop"
  /\ UNCHANGED <<deviceInfos, propsStore, method, measurement_list,
                 measurement_dict, device_info, device_properties, response,
                 error, detail>>
  /\ UNCHANGED helperVars

\* measurement.py 66-68
SuccessResponse ==
  [written |-> TRUE, content_type |-> "application/json",
   body |-> "{\"success\": true}"]

Respond ==
  /\ pc = "respond"
  /\ response' = SuccessResponse
  /\ pc' = "done"
  /\ UNCHANGED <<storeVars, method, localVars, error, detail>>
  /\ UNCHANGED helperVars

\* ------------------------------------------------------ MeasurementDetail
\* Values of the `id` query parameter.
MeasIds == {<<"1">>, <<"2">>, <<"0", "1">>, <<"7">>, <<"x">>, <<>>}

\* model.Measurement.get_by_id
GetById(store, id) ==
  IF id \in 1..Len(store) THEN <<"Measurement", id>> ELSE None

UserEmail == Str("user@example.com")
LogoutUrl == Str("/logout?continue=/")

\* measurement.py 77-81
ErrorArgs(measid) ==
  [error |-> Str(<<"Cannot get measurement ", measid>>),
   user |-> UserEmail, logout_link |-> LogoutUrl]

\* measurement.py 84-89
DetailArgs(measid, found) ==
  [id |-> Str(measid), measurement |-> found,
   user |-> UserEmail, logout_link |-> LogoutUrl]

\* measurement.py 72-82: the try block. `bound` tells whether the local
\* `measurement` was assigned before the block ended.
TryBlock(measid, store) ==
  IF ~IsIntLiteral(measid)
    THEN [bound |-> FALSE, measurement |-> None, template_args |-> <<>>,
          exc |-> "ValueError: invalid literal for int()"]
    ELSE LET found == GetById(store, IntOf(measid))
         IN [bound |-> TRUE, measurement |-> found,
             template_args |-> IF found = None THEN <<ErrorArgs(measid)>> ELSE <<>>,
             exc |-> NoError]

\* measurement.py 83-91: the finally block, entered however the try block ended.
FinallyBlockMutantElse(measid, try) ==
  IF ~try.bound
    THEN [rendered |-> <<>>, exc |-> try.exc]
    ELSE IF try.template_args # <<>>
      THEN [rendered |-> try.template_args, exc |-> try.exc]
      ELSE [rendered |-> <<DetailArgs(measid, try.measurement)>>, exc |-> try.exc]

FinallyBlock(measid, try) ==
  IF ~try.bound
    THEN [rendered |-> <<>>,
          exc |-> "UnboundLocalError: local variable 'measurement' referenced before assignment"]
    ELSE [rendered |-> <<DetailArgs(measid, try.measurement)>>, exc |-> try.exc]

\* measurement.py 70-91
MeasurementDetail ==
  /\ pc \in {"idle", "done", "failed"}
  /\ \E measid \in MeasIds :
       LET out == FinallyBlock(measid, TryBlock(measid, measStore))
       IN /\ detail' = [called |-> TRUE, measid |-> measid,
                        rendered |-> out.rendered, exc |-> out.exc]
          /\ error' = out.exc
          /\ pc' = IF out.exc = NoError THEN "done" ELSE "failed"
  /\ method' = <<"G", "E", "T">>
  /\ measurement_list' = <<>>
  /\ idx' = 0
  /\ measurement_dict' = EmptyDict
  /\ device_info' = None
  /\ device_properties' = NoModel
  /\ measurement' = NoModel
  /\ response' = NoResponse
  /\ UNCHANGED storeVars
  /\ UNCHANGED helperVars

\* -------------------------------------------- the helpers of util.py, run
NoArg == [kind |-> "none"]
NoResult == [kind |-> "none"]

HelperIdle ==
  /\ step = "off"
  /\ arg = NoArg
  /\ res = NoResult

Init ==
  /\ PostInit
  /\ detail = NoDetail
  /\ HelperIdle

Next ==
  \/ ReceivePost
  \/ CheckMethod
  \/ ParseBody
  \/ NextEntry
  \/ GetDeviceInfo
  \/ ResolveProperties
  \/ PutProperties
  \/ BuildMeasurement
  \/ PutMeasurement
  \/ Respond
  \/ MeasurementDetail

Spec == Init /\ [][Next]_vars

\* Time values and timestamp texts handed to the two time functions.
Times ==
  {DateTime(sec, usec) : sec \in {0, 5, 59},
                         usec \in {0, 1, 10, 123456, 500000, 999999}}

Wholes ==
  {<<"D", "0", "5">>, <<"D", "5", "9">>, <<"D", "5">>, <<"D", "7", "5">>,
   <<"D", "6", "0">>, <<"0", "5">>}

Fracs ==
  {<<>>, <<".", "5", ".", "5">>, <<".", "X">>}
    \cup {<<".">> \o d : d \in SeqsUpTo({"0", "5"}, MaxFracDigits)}

Trailers == {<<"Z">>, <<"X">>, <<>>}

TimeArgs ==
  {[kind |-> "time", time |-> t] : t \in Times}
    \cup {[kind |-> "text", whole |-> w, frac |-> f, trailer |-> z,
           text |-> w \o f \o z] : w \in Wholes, f \in Fracs, z \in Trailers}

TimeInit ==
  /\ PostInit
  /\ detail = NoDetail
  /\ step = "start"
  /\ res = NoResult
  /\ arg \in TimeArgs

\* util.TimeToString(arg.time)
FormatTime ==
  /\ step = "start" /\ arg.kind = "time"
  /\ res' = [kind |-> "text", text |-> TimeToString(arg.time)]
  /\ step' = "formatted"
  /\ UNCHANGED <<postVars, detail, arg>>

\* util.StringToTime of the text just formatted
ParseFormatted ==
  /\ step = "formatted"
  /\ res' = [kind |-> "parsed", text |-> res.text, parsed |-> StringToTime(res.text)]
  /\ step' = "parsed"
  /\ UNCHANGED <<postVars, detail, arg>>

\* util.StringToTime(arg.text)
ParseText ==
  /\ step = "start" /\ arg.kind = "text"
  /\ res' = [kind |-> "parsed", text |-> arg.text, parsed |-> StringToTime(arg.text)]
  /\ step' = "parsed"
  /\ UNCHANGED <<postVars, detail, arg>>

TimeNext == FormatTime \/ ParseFormatted \/ ParseText

SpecTime == TimeInit /\ [][TimeNext]_vars

\* Models handed to ConvertToDict: property "a" holds any kind of value, a
\* nested model up to MaxDepth levels deep included; property "b" a plain one.
Absent == <<"absent", "absent">>

MakeModel(a, b) ==
  (IF a = Absent THEN EmptyDict ELSE "a" :> a)
    @@ (IF b = Absent THEN EmptyDict ELSE "b" :> b)

LeafValues ==
  {None, Num(1), Date(DateTime(5, 0)), Date(DateTime(5, 10)), GeoPt(1, 2),
   UserProperty("user@example.com"), Unencodable}

RECURSIVE Models(_)
Models(depth) ==
  {MakeModel(a, b) :
     a \in {Absent} \cup LeafValues
           \cup (IF depth = 0 THEN {} ELSE {Model(m) : m \in Models(depth - 1)}),
     b \in {Absent, Str("s"), Unencodable}}

FieldLists == {NoList} \cup {ListOf(names) : names \in SUBSET {"a", "b"}}

ToDictInit ==
  /\ PostInit
  /\ detail = NoDetail
  /\ step = "start"
  /\ res = NoResult
  /\ arg \in {[kind |-> "todict", model |-> m, include_fields |-> i,
               exclude_fields |-> e] :
                m \in Models(MaxDepth), i \in FieldLists, e \in FieldLists}

\* util.ConvertToDict(arg.model, arg.include_fields, arg.exclude_fields)
ConvertModel ==
  /\ step = "start" /\ arg.kind = "todict"
  /\ res' = ConvertToDict(arg.model, arg.include_fields, arg.exclude_fields)
  /\ step' = "converted"
  /\ UNCHANGED <<postVars, detail, arg>>

ToDictNext == ConvertModel

SpecToDict == ToDictInit /\ [][ToDictNext]_vars

\* Objects and mappings handed to ConvertFromDict.
FromDictKeys == {"a", "b", "x"}

DictsOver(keys, values) == UNION {[d -> values] : d \in SUBSET keys}

FromDictInit ==
  /\ PostInit
  /\ detail = NoDetail
  /\ step = "start"
  /\ res = NoResult
  /\ arg \in {[kind |-> "fromdict",
               model |-> [NewModel("Model", h) EXCEPT !.attrs = before],
               input_dict |-> d, fields_to_exclude |-> x] :
                h \in SUBSET {"b", "x"},
                before \in DictsOver({"a", "c"}, {Num(0)}),
                d \in DictsOver(FromDictKeys, {Num(5), Str("s")}),
                x \in SUBSET FromDictKeys}

\* util.ConvertFromDict(arg.model, arg.input_dict, arg.fields_to_exclude)
PopulateModel ==
  /\ step = "start" /\ arg.kind = "fromdict"
  /\ res' = ConvertFromDict(arg.model, arg.input_dict, arg.fields_to_exclude)
  /\ step' = "converted"
  /\ UNCHANGED <<postVars, detail, arg>>

FromDictNext == PopulateModel

SpecFromDict == FromDictInit /\ [][FromDictNext]_vars

\* ------------------------------------------------------------------ claims
\* A PostMeasurement call is being served, or has just ended.
InPost == pc # "idle" /\ ~detail.called

\* The step begins to serve another request.
StartsRequest == pc' = "check" \/ (detail'.called /\ ~detail.called)

IsBadRequest == pc = "failed" /\ error = "BadRequest: Not a POST request."

\* What a rejected call leaves behind: nothing parsed, nothing built, nothing
\* written, and from then on the datastore stays as it is.
Untouched ==
  /\ measurement_list = <<>>
  /\ device_info = None
  /\ device_properties = NoModel
  /\ measurement = NoModel
  /\ response = NoResponse

RejectedStep(isOther) ==
  (InPost /\ isOther /\ ~StartsRequest)
    => /\ Untouched
       /\ pc' = "failed"
       /\ error' = "BadRequest: Not a POST request."
       /\ UNCHANGED <<storeVars, localVars, response>>

\* C1, as stated: PostMeasurement called with any request method other than
\* POST fails with BadRequest before any processing: no DeviceInfo,
\* DeviceProperties or Measurement is created or persisted, the body is never
\* parsed, and no success response is written.
C1_OtherThanPOSTRejected == [][RejectedStep(method # POST)]_vars

\* C1, amended: the same, for every request method that is not POST in any
\* letter case (the handler compares method.lower() with 'post').
C1_OtherThanPostAnyCaseRejected == [][RejectedStep(Lower(method) # post)]_vars

\* C1: a GET has been rejected while the datastore holds earlier records.
C1_Witness ==
  /\ InPost /\ IsBadRequest
  /\ method = <<"G", "E", "T">>
  /\ Len(measStore) > 0

\* C2: an entry of a POSTed batch that has a device_id and no `properties`
\* key is completed (its snapshot fetched or defaulted, its Measurement
\* persisted): the request never fails at such an entry.
C2_EntryWithoutPropertiesCompletes ==
  ~ /\ InPost /\ pc = "failed"
    /\ idx \in 1..Len(measurement_list)
    /\ "device_id" \in DOMAIN measurement_list[idx]
    /\ "properties" \notin DOMAIN measurement_list[idx]
    /\ device_info # None

\* C3: for an entry with a `properties` key the sub-object is mapped onto a
\* new DeviceProperties snapshot associated with the entry's DeviceInfo, the
\* key is removed from the entry before the Measurement is mapped, and no
\* persisted Measurement has a `properties` field.
C3_PropertiesMappedAndStripped ==
  /\ (InPost /\ pc \in {"putproperties", "measurement"})
       => /\ device_properties.kind = "DeviceProperties"
          /\ device_properties.attrs["device_info"] = device_info
          /\ "properties" \notin DOMAIN measurement_dict
  /\ \A n \in 1..Len(measStore) : "properties" \notin DOMAIN measStore[n].attrs
  /\ \A n \in 1..Len(propsStore) :
       propsStore[n].attrs["device_info"][1] = "DeviceInfo"

\* The DeviceProperties entity a persisted Measurement references, if it
\* references one.
RefersToSnapshot(m) ==
  /\ "device_properties" \in DOMAIN m.attrs
  /\ m.attrs["device_properties"][1] = "DeviceProperties"
  /\ m.attrs["device_properties"][2] \in 1..Len(propsStore)

\* C4: every persisted Measurement references exactly one DeviceProperties
\* snapshot, the one resolved for its own entry (whatever the entry data said
\* under `device_properties`), and that snapshot was persisted before it.
C4_MeasurementReferencesItsSnapshot ==
  /\ \A n \in 1..Len(measStore) :
       /\ RefersToSnapshot(measStore[n])
       /\ propsStore[measStore[n].attrs["device_properties"][2]].putSeq
            < measStore[n].putSeq
  /\ (InPost /\ pc = "loop" /\ measurement.id # 0)
       => /\ device_properties.id # 0
          /\ measStore[measurement.id].attrs["device_properties"]
               = DevicePropertiesRef(device_properties.id)

\* C4: a Measurement has just been persisted whose entry data carried its own
\* `device_properties` key.
C4_Witness ==
  /\ InPost /\ pc = "loop" /\ measurement.id # 0
  /\ "device_properties" \in DOMAIN measurement_list[idx - 1]
  /\ measStore[measurement.id].attrs["device_properties"]
       = DevicePropertiesRef(device_properties.id)

\* C5: MeasurementDetail with an integer-valued id renders the template
\* exactly once, with the variables id, measurement, user and logout_link,
\* found or not; a missing Measurement is rendered as an absent value and the
\* error-branch variables never reach the template.
C5_DetailRenderedOnce ==
  (detail.called /\ IsIntLiteral(detail.measid))
    => /\ Len(detail.rendered) = 1
       /\ DOMAIN detail.rendered[1] = {"id", "measurement", "user", "logout_link"}
       /\ detail.rendered[1].id = Str(detail.measid)
       /\ detail.rendered[1].measurement
            = GetById(measStore, IntOf(detail.measid))
       /\ detail.exc = NoError

\* C5: the lookup found nothing, in a datastore that holds Measurements.
C5_Witness ==
  /\ detail.called /\ IsIntLiteral(detail.measid)
  /\ Len(measStore) > 0
  /\ GetById(measStore, IntOf(detail.measid)) = None
  /\ Len(detail.rendered) = 1

\* The entries before position idx are the ones whose writes are committed:
\* the last idx - 1 Measurement entities are theirs, in array order, each put
\* after its own snapshot and after the Measurement of the entry before it.
EarlierEntriesPersisted ==
  LET n == idx - 1
      base == Len(measStore) - n
  IN /\ base >= 0
     /\ \A j \in 1..n :
          LET m == measStore[base + j]
          IN /\ DictDel(m.attrs, "device_properties")
                  = DictDel(measurement_list[j], "device_properties")
             /\ RefersToSnapshot(m)
             /\ propsStore[m.attrs["device_properties"][2]].putSeq < m.putSeq
             /\ j > 1 => measStore[base + j - 1].putSeq
                           < propsStore[m.attrs["device_properties"][2]].putSeq

\* C10: entries are processed in array order and each entry's writes are
\* committed at once: when processing fails at entry k the records of the
\* entries before k stay persisted, nothing after k is processed, nothing is
\* rolled back and no success response is written; the success response is
\* written only after the last entry's Measurement has been persisted.
C10_SequentialCommit ==
  /\ [](InPost /\ pc \notin {"check", "parse"} /\ ~IsBadRequest /\ idx >= 1
          => EarlierEntriesPersisted)
  /\ [](InPost /\ pc = "failed" => ~response.written)
  /\ [](InPost /\ response.written
          => /\ pc = "done"
             /\ idx = Len(measurement_list) + 1
             /\ EarlierEntriesPersisted)
  /\ [][(InPost /\ pc = "failed" /\ ~StartsRequest)
          => UNCHANGED <<storeVars, localVars, response, pc>>]_vars

\* C10: processing failed at the second or a later entry of a batch.
C10_Witness ==
  /\ InPost /\ pc = "failed"
  /\ idx >= 2 /\ idx <= Len(measurement_list)
  /\ Len(measStore) >= idx - 1

\* C6: for every time value t of microsecond precision, the microsecond
\* component 0 included, StringToTime(TimeToString(t)) is t.
C6_RoundTrip ==
  (step = "parsed" /\ arg.kind = "time")
    => /\ res.parsed.ok
       /\ res.parsed.dt = arg.time

\* C6: a time whose microsecond component is 0 has made the round trip.
C6_Witness ==
  /\ step = "parsed" /\ arg.kind = "time"
  /\ arg.time.usec = 0
  /\ res.parsed = Returned(arg.time)

\* A timestamp text of the documented form but for its end: the whole-second
\* part, then no fraction or a fraction of one to six digits, then something
\* other than a closing Z.
DocumentedButForZ(a) ==
  /\ a.whole \in {<<"D", "0", "5">>, <<"D", "5", "9">>}
  /\ \/ a.frac = <<>>
     \/ /\ Len(a.frac) \in 2..7
        /\ a.frac[1] = "."
        /\ \A n \in 2..Len(a.frac) : a.frac[n] \in Digits
  /\ a.trailer # <<"Z">>
  /\ a.text[Len(a.text)] # "Z"

\* C7: StringToTime fails with InvalidFormat ('Timestring does not end in
\* Z'), returning no time value, for every timestamp text whose last
\* character is not Z, with or without a fractional-seconds segment.
C7_MissingZRejected ==
  (step = "parsed" /\ arg.kind = "text" /\ DocumentedButForZ(arg))
    => /\ ~res.parsed.ok
       /\ res.parsed.exc = InvalidFormat

\* The properties of a model that pass the allow-list and the deny-list.
Kept(model, include_fields, exclude_fields) ==
  {k \in DOMAIN model :
     /\ include_fields.given => k \in include_fields.names
     /\ exclude_fields.given => k \notin exclude_fields.names}

RECURSIVE KeysAsFiltered(_, _, _, _)
KeysAsFiltered(model, include_fields, exclude_fields, output) ==
  /\ DOMAIN output = Kept(model, include_fields, exclude_fields)
  /\ \A k \in DOMAIN output :
       model[k][1] = "Model"
         => /\ output[k][1] = "dict"
            /\ KeysAsFiltered(model[k][2], include_fields, exclude_fields,
                              output[k][2])

\* C8: the mapping ConvertToDict returns has as keys exactly the declared
\* fields of the model that are in the allow-list (when given) and not in the
\* deny-list (when given), and the same holds, with the same two lists, of
\* every nested model it converts.
C8_KeysAreFilteredFields ==
  (step = "converted" /\ arg.kind = "todict" /\ res.ok)
    => KeysAsFiltered(arg.model, arg.include_fields, arg.exclude_fields,
                      res.output)

\* C8: allow {a, b} with deny {b} has yielded only a, for a model whose a is
\* a nested model that has both fields too.
C8_Witness ==
  /\ step = "converted" /\ arg.kind = "todict" /\ res.ok
  /\ arg.include_fields = ListOf({"a", "b"})
  /\ arg.exclude_fields = ListOf({"b"})
  /\ DOMAIN arg.model = {"a", "b"}
  /\ arg.model["a"][1] = "Model"
  /\ DOMAIN arg.model["a"][2] = {"a", "b"}
  /\ DOMAIN res.output = {"a"}
  /\ DOMAIN res.output["a"][2] = {"a"}

\* C9: ConvertFromDict treats each key of the mapping in one way: a key in
\* the deny-list is neither assigned nor passed to a hook; another key with a
\* JSON_DECODE_<key> hook has the hook called once with the value and is not
\* assigned; any other key is assigned the raw value. Fields that are no key
\* of the mapping stay as they were.
C9_KeysHandledOneWay ==
  (step = "converted" /\ arg.kind = "fromdict")
    => LET before == arg.model.attrs
           d == arg.input_dict
           Calls(k) == {n \in 1..Len(res.calls) : res.calls[n][1] = k}
           Unassigned(k) ==
             /\ k \in DOMAIN res.attrs <=> k \in DOMAIN before
             /\ k \in DOMAIN before => res.attrs[k] = before[k]
       IN /\ \A k \in DOMAIN d :
               IF k \in arg.fields_to_exclude
                 THEN Unassigned(k) /\ Calls(k) = {}
               ELSE IF k \in arg.model.hooks
                 THEN /\ Cardinality(Calls(k)) = 1
                      /\ \A n \in Calls(k) : res.calls[n] = <<k, d[k]>>
                      /\ Unassigned(k)
               ELSE /\ k \in DOMAIN res.attrs
                    /\ res.attrs[k] = d[k]
                    /\ Calls(k) = {}
          /\ \A k \in (DOMAIN before \cup DOMAIN res.attrs) \ DOMAIN d :
               Unassigned(k)
          /\ \A n \in 1..Len(res.calls) : res.calls[n][1] \in DOMAIN d

\* C9: one mapping has had a denied key, a hooked key and a plain key.
C9_Witness ==
  /\ step = "converted" /\ arg.kind = "fromdict"
  /\ DOMAIN arg.input_dict = {"a", "b", "x"}
  /\ arg.fields_to_exclude = {"a"}
  /\ arg.model.hooks = {"x"}
  /\ DOMAIN arg.model.attrs = {"a", "c"}
  /\ res.calls = <<<<"x", arg.input_dict["x"]>>>>
  /\ res.attrs["b"] = arg.input_dict["b"]

====
